---------------------------- MODULE Spec2Model ----------------------------
(***************************************************************************)
(* Model of the Bitrix -> BigQuery call pipeline:                          *)
(*   extract.py        fetch_deals_from_bitrix   (paginated, retrying)     *)
(*   preprocessing.py  get_bitrix_maps, fetch_all_bitrix_users,            *)
(*                     fetch_sip_lines_map, run_bigquery_merge,            *)
(*                     normalize_arabic, extract_last_10_digits,           *)
(*                     fix_date_format, process_source                     *)
(* Each component has its own specification (SpecFetch, SpecMaps,          *)
(* SpecMerge, SpecText); the variables of the other components stay at     *)
(* rest.                                                                   *)
(***************************************************************************)
EXTENDS Integers, Sequences, FiniteSets, TLC

VARIABLES
    \* ---- fetch_deals_from_bitrix (extract.py) ----
    pc,            \* "fetching" (inside the retry loop) | "done" (returned) | "raised"
    start,         \* pagination cursor sent as params["start"]
    attempt,       \* retry counter of the current page
    all_deals,     \* rows collected so far
    data,          \* last successfully parsed response
    df,            \* the returned table (set when pc = "done")
    \* history of the run (what an observer of the HTTP traffic and the clock sees)
    reqStart,      \* "start" carried by the last request issued (-1: none yet)
    reqThisPage,   \* requests issued in the current turn of the outer loop
    lastOutcome,   \* "none" | "429" | "error" | "ok"
    slept,         \* duration (ms) of the sleep that followed the last request
    okBatches,     \* batches appended, in request order
    exhausted,     \* TRUE when the run ended on an exhausted retry budget
    crm,           \* the CRM of this run: the responses it can give, and how
                   \* many full pages with a cursor it delivers
    metered,       \* TRUE in the runs whose requests are counted run-wide
    reqTotal,      \* requests issued in the run so far (counted in metered runs)
    turns,         \* turns of the outer loop entered so far
    \* ---- run_bigquery_merge (preprocessing.py) ----
    mpc,           \* "schema" | "query" | "done" (returned) | "raised" (error left the call)
    df_columns,    \* the staging column names passed in
    schema,        \* main_table.schema as the warehouse holds it: fields [name, field_type]
    schema_map,    \* UPPER(name) -> field_type, as built by the call
    sql,           \* the statement built by the call
    main,          \* rows of the main table
    staging,       \* rows of the staging table (unique, non-null IDs)
    calls,         \* calls of run_bigquery_merge so far
    schemaFailed,  \* the get_table of this call raised
    queries,       \* client.query calls of this call
    logged,        \* the DEBUG SQL excerpt was printed in this call
    runsOK,        \* successful executions so far
    mainBefore,    \* the main table before the last successful execution
    okSql,         \* the statement of the last successful execution
    prevSql,       \* the statement of the successful execution before that one
    queryFailed,   \* the execution of this call raised
    \* ---- get_bitrix_maps (preprocessing.py) ----
    gpc,           \* "users" | "sip" | "done" (returned) | "raised" (error left the call)
    u_start,       \* cursor of fetch_all_bitrix_users
    all_users,     \* users collected so far
    s_start,       \* cursor of fetch_sip_lines_map
    sip_map,       \* the SIP map under construction
    maps,          \* the value get_bitrix_maps returns
    usersFailed,   \* a page request of the users fetch raised
    sipFailed,     \* a page request of the SIP fetch raised
    mapErrorLogged,\* "Map Error" was printed
    sipErrorLogged,\* "Error fetching SIP lines" was printed
    sipCalled,     \* fetch_sip_lines_map was entered and issued a request
    userBatches,   \* user pages received, in request order
    sipBatches,    \* SIP pages received, in request order
    \* ---- the cell functions applied row by row (preprocessing.py) ----
    tpc,           \* "idle" | "called" | "returned" | "raised"
    fn,            \* the function called
    arg,           \* its argument: a Python value, or a row for process_source
    ret            \* the value it returned

fetchVars == <<pc, start, attempt, all_deals, data, df,
               reqStart, reqThisPage, lastOutcome, slept, okBatches, exhausted,
               crm, metered, reqTotal, turns>>

mergeVars == <<mpc, df_columns, schema, schema_map, sql, main, staging, calls,
               schemaFailed, queries, logged, runsOK, mainBefore, okSql, prevSql,
               queryFailed>>

mapsVars == <<gpc, u_start, all_users, s_start, sip_map, maps, usersFailed, sipFailed,
              mapErrorLogged, sipErrorLogged, sipCalled, userBatches, sipBatches>>

textVars == <<tpc, fn, arg, ret>>

vars == <<fetchVars, mergeVars, mapsVars, textVars>>

-----------------------------------------------------------------------------
(* Bounds of the model *)
MaxPages == 2      \* full pages with a cursor the source delivers in one run
MaxMeteredPages == 1   \* the same, in a run whose requests are counted
MaxCalls == 2      \* calls of run_bigquery_merge against one staging table
MaxCols == 3       \* length of the staging column list
MaxRefPages == 2   \* pages with a cursor a reference table delivers

(* Program constants *)
max_retries == 30
PageSize == 50
Cooldown429 == 10000   \* time.sleep(10), in ms
NetPause == 5000       \* time.sleep(5), in ms
PagePace == 500        \* time.sleep(0.5), in ms

-----------------------------------------------------------------------------
(* The source: rows, batches and responses it can deliver *)

Batch(lo, n, v) == [i \in 1..n |-> [ID |-> lo + i - 1, val |-> v]]

BatchA == Batch(1, 50, "a")      \* a full page, IDs 1..50
BatchB == Batch(46, 30, "b")     \* a short page, IDs 46..75 (5 shared with BatchA)
BatchD == <<[ID |-> 7, val |-> "d"], [ID |-> 7, val |-> "e"]>>  \* one ID twice in a page

Batches == {<<>>, BatchA, BatchB, BatchD}

Cursors == {50, 100}

NoData == [result |-> <<>>, hasNext |-> FALSE, next |-> 0]

Responses ==
    [result : Batches, hasNext : {FALSE}, next : {0}]
      \cup [result : Batches, hasNext : {TRUE}, next : Cursors]

-----------------------------------------------------------------------------
(* Pure helpers of fetch_deals_from_bitrix *)

\* rows paired with their position, so that a selection can look ahead
Indexed(rows) == [i \in 1..Len(rows) |-> [at |-> i, row |-> rows[i]]]

Rows(indexed) == [i \in 1..Len(indexed) |-> indexed[i].row]

\* faulty variant: keep='first'
DropDuplicatesKeepFirst(rows) ==
    LET IsFirst(p) == \A j \in 1..(p.at - 1) : rows[j].ID # p.row.ID
    IN  Rows(SelectSeq(Indexed(rows), IsFirst))

DropDuplicatesKeepLast(rows) ==
    LET IsLast(p) == \A j \in (p.at + 1)..Len(rows) : rows[j].ID # p.row.ID
    IN  Rows(SelectSeq(Indexed(rows), IsLast))

\* df = pd.DataFrame(all_deals); if not df.empty: df.drop_duplicates(subset='ID', keep='last')
DropDuplicates(rows) == DropDuplicatesKeepLast(rows)

\* faulty variant: the loop admits one attempt too many
RetryAllowedOffByOne(a) == a <= max_retries

\* while attempt < max_retries
RetryAllowed(a) == a < max_retries

\* faulty variant: follows the cursor whatever the batch size
PaginationContinuesCursorOnly(d, batch) == d.hasNext

\* if 'next' in data and len(batch) >= 50
PaginationContinues(d, batch) == d.hasNext /\ Len(batch) >= PageSize

-----------------------------------------------------------------------------
(* fetch_deals_from_bitrix *)

\* the run starts against a CRM that can give these responses
FetchStart(responses, pages, counted) ==
    /\ crm = [responses |-> responses, fullPages |-> pages]
    /\ metered = counted
    /\ reqTotal = 0
    /\ turns = 1
    /\ pc = "fetching"
    /\ start = 0
    /\ attempt = 0
    /\ all_deals = <<>>
    /\ data = NoData
    /\ df = <<>>
    /\ reqStart = -1
    /\ reqThisPage = 0
    /\ lastOutcome = "none"
    /\ slept = 0
    /\ okBatches = <<>>
    /\ exhausted = FALSE

FetchInit == FetchStart(Responses, MaxPages, FALSE)

\* a run whose requests are counted, against a CRM with one full page, one
\* short page and the empty page to give
MeteredResponses ==
    {[result |-> BatchA, hasNext |-> TRUE, next |-> PageSize],
     [result |-> BatchD, hasNext |-> FALSE, next |-> 0],
     NoData}

FetchInitMetered == FetchStart(MeteredResponses, MaxMeteredPages, TRUE)

\* faulty variant: attempt is set before the outer loop and carried from page to page
AttemptCarried == attempt

\* attempt = 0, at the top of every turn of the outer loop
FreshAttempt == 0

\* faulty variant: all_deals = batch
ExtendReplaces(rows, batch) == batch

\* all_deals.extend(batch)
Extend(rows, batch) == rows \o batch

\* what every requests.post of the retry loop does to the history
Issue(outcome, pause) ==
    /\ reqStart' = start
    /\ lastOutcome' = outcome
    /\ slept' = pause
    /\ reqTotal' = IF metered THEN reqTotal + 1 ELSE reqTotal

\* the function leaves the outer loop: build the frame, deduplicate, return
Return(rows) ==
    /\ pc' = "done"
    /\ df' = DropDuplicates(rows)

\* response.status_code == 429: sleep 10, attempt += 1, continue
Request429 ==
    /\ pc = "fetching"
    /\ RetryAllowed(attempt)
    /\ Issue("429", Cooldown429)
    /\ reqThisPage' = reqThisPage + 1
    /\ attempt' = attempt + 1
    /\ UNCHANGED <<pc, start, all_deals, data, df, okBatches, exhausted>>
    /\ UNCHANGED <<crm, metered, turns>>
    /\ UNCHANGED <<mergeVars, mapsVars, textVars>>

\* requests.exceptions.RequestException (connection error, raise_for_status):
\* sleep 5, attempt += 1
RequestError ==
    /\ pc = "fetching"
    /\ RetryAllowed(attempt)
    /\ Issue("error", NetPause)
    /\ reqThisPage' = reqThisPage + 1
    /\ attempt' = attempt + 1
    /\ UNCHANGED <<pc, start, all_deals, data, df, okBatches, exhausted>>
    /\ UNCHANGED <<crm, metered, turns>>
    /\ UNCHANGED <<mergeVars, mapsVars, textVars>>

\* a 2xx response: data = response.json(); success; then the page is processed
RequestOK ==
    /\ pc = "fetching"
    /\ RetryAllowed(attempt)
    /\ \E r \in crm.responses :
         LET batch == r.result IN
         /\ data' = r
         /\ IF batch = <<>>
            THEN \* if not batch: break
                 /\ Issue("ok", 0)
                 /\ reqThisPage' = reqThisPage + 1
                 /\ Return(all_deals)
                 /\ UNCHANGED <<start, attempt, all_deals, okBatches, turns>>
            ELSE /\ all_deals' = Extend(all_deals, batch)
                 /\ okBatches' = Append(okBatches, batch)
                 /\ IF PaginationContinues(r, batch)
                    THEN \* start = data['next']; sleep 0.5; next turn of the outer loop
                         /\ Len(okBatches) < crm.fullPages
                         /\ Issue("ok", PagePace)
                         /\ start' = r.next
                         /\ attempt' = FreshAttempt
                         /\ reqThisPage' = 0
                         /\ turns' = turns + 1
                         /\ UNCHANGED <<pc, df>>
                    ELSE /\ Issue("ok", 0)
                         /\ reqThisPage' = reqThisPage + 1
                         /\ Return(all_deals')
                         /\ UNCHANGED <<start, attempt, turns>>
    /\ UNCHANGED <<exhausted, crm, metered, mergeVars, mapsVars, textVars>>

\* faulty variant: an exhausted budget raises instead of returning the partial result
GiveUpRaises ==
    /\ pc = "fetching"
    /\ ~RetryAllowed(attempt)
    /\ pc' = "raised"
    /\ exhausted' = TRUE
    /\ UNCHANGED <<start, attempt, all_deals, data, df,
                   reqStart, reqThisPage, lastOutcome, slept, okBatches>>
    /\ UNCHANGED <<crm, metered, reqTotal, turns>>
    /\ UNCHANGED <<mergeVars, mapsVars, textVars>>

\* the retry loop ends without success: if not success: break
GiveUp ==
    /\ pc = "fetching"
    /\ ~RetryAllowed(attempt)
    /\ Return(all_deals)
    /\ exhausted' = TRUE
    /\ UNCHANGED <<start, attempt, all_deals, data,
                   reqStart, reqThisPage, lastOutcome, slept, okBatches>>
    /\ UNCHANGED <<crm, metered, reqTotal, turns>>
    /\ UNCHANGED <<mergeVars, mapsVars, textVars>>

FetchNext == Request429 \/ RequestError \/ RequestOK \/ GiveUp

-----------------------------------------------------------------------------
(* Vocabulary of the fetch claims *)

\* a step in which requests.post is called
AnyRequest == Request429 \/ RequestError \/ RequestOK

RECURSIVE Flatten(_)
Flatten(batches) ==
    IF batches = <<>> THEN <<>> ELSE Head(batches) \o Flatten(Tail(batches))

IdsOf(rows) == {rows[i].ID : i \in 1..Len(rows)}

LastIndexOf(rows, id) ==
    LET at == {j \in 1..Len(rows) : rows[j].ID = id}
    IN  CHOOSE j \in at : \A k \in at : k <= j

\* d holds every ID of rows once, each with the row of its last occurrence,
\* in the order of those last occurrences
IsLastSeenTable(d, rows) ==
    /\ IdsOf(d) = IdsOf(rows)
    /\ Len(d) = Cardinality(IdsOf(rows))
    /\ \A i \in 1..Len(d) : d[i] = rows[LastIndexOf(rows, d[i].ID)]
    /\ \A i \in 1..(Len(d) - 1) :
         LastIndexOf(rows, d[i].ID) < LastIndexOf(rows, d[i + 1].ID)

-----------------------------------------------------------------------------
(* C1: within one page (one turn of the outer loop) at most 30 requests    *)
(* are issued; a 429 and a network/HTTP failure each consume one attempt   *)
(* of that budget and leave the cursor alone, the request after a failure  *)
(* carries the same start as the failed one, a 429 is followed by the      *)
(* 10 s sleep and a failure by the 5 s sleep.                              *)
C1_Budget ==
    /\ reqThisPage <= 30
    /\ attempt <= 30
    /\ lastOutcome = "429" => slept = 10000
    /\ lastOutcome = "error" => slept = 5000
    /\ lastOutcome \in {"429", "error"} => reqThisPage = attempt

C1_RetryStep ==
    /\ (Request429 \/ RequestError) =>
          /\ attempt' = attempt + 1
          /\ reqThisPage' = reqThisPage + 1
          /\ start' = start
    /\ (AnyRequest /\ lastOutcome \in {"429", "error"}) => reqStart' = reqStart

C1_RetryBudget == [](C1_Budget) /\ [][C1_RetryStep]_vars

\* a page reached after a successful one uses its whole budget, ending on a 429
C1_Witness ==
    /\ okBatches # <<>>
    /\ reqThisPage = 30
    /\ lastOutcome = "429"
    /\ reqStart = start

(* C2: when the 30 attempts of a page all fail the function returns (it    *)
(* does not raise), takes no further step, and the table returned is the   *)
(* last-seen-per-ID table of the batches fetched before; it is empty when  *)
(* the first page is the one that fails.                                   *)
C2_Returned ==
    exhausted =>
      /\ pc = "done"
      /\ attempt = 30
      /\ IsLastSeenTable(df, Flatten(okBatches))
      /\ okBatches = <<>> => df = <<>>

C2_PartialResult == [](C2_Returned) /\ [][~exhausted]_vars

C2_Witness ==
    /\ exhausted
    /\ pc = "done"
    /\ okBatches = <<BatchA>>
    /\ Len(df) = 50

C2_WitnessFirstPage == exhausted /\ pc = "done" /\ okBatches = <<>> /\ df = <<>>

(* C3: the first request carries start = 0; after a successful page the    *)
(* loop goes on iff the batch is non-empty, has at least 50 rows and the   *)
(* response has a next cursor, and then the next request carries that      *)
(* cursor; otherwise the function returns and issues no request.           *)
C3_AfterPage ==
    lastOutcome = "ok" =>
      /\ pc \in {"fetching", "done"}
      /\ pc = "fetching" <=>
            (data.result # <<>> /\ Len(data.result) >= 50 /\ data.hasNext)
      /\ pc = "fetching" => start = data.next /\ attempt = 0

C3_RequestStep ==
    /\ pc = "fetching"
    /\ AnyRequest => reqStart' = start
    /\ (AnyRequest /\ reqStart = -1) => reqStart' = 0
    /\ (AnyRequest /\ lastOutcome = "ok") => reqStart' = data.next

C3_Pagination == [](C3_AfterPage) /\ [][C3_RequestStep]_vars

\* a second page has been requested at the cursor of the first, which was not start + 50
C3_Witness ==
    /\ Len(okBatches) = 1
    /\ data.next = 100
    /\ reqStart = 100
    /\ lastOutcome = "error"

\* a short batch that carried a cursor ended the pagination
C3_WitnessShort ==
    pc = "done" /\ lastOutcome = "ok" /\ data.hasNext /\ data.result = BatchB

(* C4: the returned table holds each collected ID exactly once, with the   *)
(* row of its last occurrence in fetch order, so its length is the number  *)
(* of distinct IDs; a page of 50 with a cursor followed by a page of 30    *)
(* sharing 5 IDs gives 75 rows with the second page's values for the 5.    *)
C4_LastSeenWins ==
    pc = "done" =>
      /\ IsLastSeenTable(df, all_deals)
      /\ Len(df) = Cardinality(IdsOf(all_deals))
      /\ okBatches = <<BatchA, BatchB>> =>
            /\ Len(all_deals) = 80
            /\ Len(df) = 75
            /\ \A i \in 1..Len(df) :
                 df[i].ID \in 46..50 => df[i].val = "b"

C4_Witness ==
    /\ pc = "done"
    /\ okBatches = <<BatchA, BatchB>>
    /\ ~data.hasNext
    /\ Len(df) = 75

\* the fetcher at rest, while another component runs
FetchIdle ==
    /\ pc = "idle"
    /\ start = 0
    /\ attempt = 0
    /\ all_deals = <<>>
    /\ data = NoData
    /\ df = <<>>
    /\ reqStart = -1
    /\ reqThisPage = 0
    /\ lastOutcome = "none"
    /\ slept = 0
    /\ okBatches = <<>>
    /\ exhausted = FALSE
    /\ crm = [responses |-> {}, fullPages |-> 0]
    /\ metered = FALSE
    /\ reqTotal = 0
    /\ turns = 0

-----------------------------------------------------------------------------
(* run_bigquery_merge: names, values, tables *)

\* column names a staging frame can carry
StagingNames == {"ID", "PHONE", "phone", "CALL_DATE"}

\* str.upper() on the names in use
Upper(name) ==
    CASE name = "phone" -> "PHONE"
      [] name = "Phone" -> "PHONE"
      [] name = "Call_Date" -> "CALL_DATE"
      [] OTHER -> name

\* cell values: an INT64, a STRING or NULL
IntVal(n) == [t |-> "INT", n |-> n, s |-> ""]
StrVal(x) == [t |-> "STR", n |-> 0, s |-> x]
NullVal == [t |-> "NULL", n |-> 0, s |-> ""]

\* CAST(x AS STRING)
CastString(x) == IF x.t = "INT" THEN StrVal(ToString(x.n)) ELSE x

\* column lists: no two names that the warehouse would take for one column
DistinctColumns(cols) ==
    \A i, j \in 1..Len(cols) : i # j => Upper(cols[i]) # Upper(cols[j])

ColumnLists ==
    {cols \in UNION {[1..n -> StagingNames] : n \in 0..MaxCols} : DistinctColumns(cols)}

\* the main table's declared fields; Phone is declared in mixed case
Field(name, type) == [name |-> name, field_type |-> type]

Schemas ==
    {<<Field("ID", "INTEGER"), Field("Phone", pt), Field("CALL_DATE", dt), Field("NOTE", "STRING")>> :
        pt \in {"STRING", "INTEGER"}, dt \in {"DATE", "STRING"}}

MainCols == {"ID", "PHONE", "CALL_DATE", "NOTE"}

MainRow(id, tag) ==
    [c \in MainCols |->
        CASE c = "ID" -> IntVal(id)
          [] c = "PHONE" -> StrVal(tag)
          [] c = "CALL_DATE" -> StrVal("2024-01-01")
          [] OTHER -> StrVal("kept")]

MainTables ==
    {<<>>, <<MainRow(1, "old")>>, <<MainRow(2, "old")>>,
     <<MainRow(1, "old"), MainRow(2, "old")>>,
     <<MainRow(2, "old"), MainRow(2, "older")>>,
     <<[MainRow(1, "old") EXCEPT !["ID"] = NullVal]>>}

\* a staging row over the columns of the frame; digits-only phones load as INT64
StagingRow(cols, id) ==
    [c \in {Upper(cols[i]) : i \in 1..Len(cols)} |->
        CASE c = "ID" -> IntVal(id)
          [] c = "PHONE" -> IntVal(500 + id)
          [] OTHER -> StrVal("2024-02-02")]

StagingIds == {<<>>, <<1>>, <<2>>, <<1, 2>>, <<3, 1>>}

StagingTable(cols, ids) == [i \in 1..Len(ids) |-> StagingRow(cols, ids[i])]

-----------------------------------------------------------------------------
(* run_bigquery_merge: building the statement *)

NoSql == [on_col |-> "", update_list |-> <<>>, insert_cols |-> <<>>, insert_vals |-> <<>>]

EmptyMap == [k \in {} |-> "None"]

\* {field.name.upper(): field.field_type for field in main_table.schema}
SchemaMapOf(fields) ==
    [k \in {Upper(fields[i].name) : i \in 1..Len(fields)} |->
        LET at == {i \in 1..Len(fields) : Upper(fields[i].name) = k}
        IN  fields[CHOOSE i \in at : \A j \in at : j <= i].field_type]

\* faulty variant: the column is looked up as written, not upper-cased
TargetTypeAsWritten(map, col) == IF col \in DOMAIN map THEN map[col] ELSE "None"

\* schema_map.get(col.upper())
TargetType(map, col) ==
    IF Upper(col) \in DOMAIN map THEN map[Upper(col)] ELSE "None"

\* src_val: CAST(S.col AS STRING) when the target type is STRING, else S.col
SrcVal(map, col) == [col |-> col, cast |-> TargetType(map, col) = "STRING"]

\* if col != 'ID'
IsUpdatedColumn(col) == col # "ID"

\* faulty variant: insert_cols/insert_vals are fed inside the if, so ID is not inserted
InsertedColumnsNonId(cols) == SelectSeq(cols, IsUpdatedColumn)

\* insert_cols.append(col) for every column
InsertedColumns(cols) == cols

\* the loop over df_columns and the statement text
BuildSql(cols, map) ==
    LET upd == SelectSeq(cols, IsUpdatedColumn)
        ins == InsertedColumns(cols)
    IN  [on_col |-> "ID",
         update_list |-> [i \in 1..Len(upd) |-> [target |-> upd[i], src |-> SrcVal(map, upd[i])]],
         insert_cols |-> ins,
         insert_vals |-> [i \in 1..Len(ins) |-> SrcVal(map, ins[i])]]

-----------------------------------------------------------------------------
(* The warehouse executing  MERGE T USING S ON T.ID = S.ID                 *)
(*   WHEN MATCHED THEN UPDATE SET ... WHEN NOT MATCHED THEN INSERT ...     *)

\* the statement parses and names only columns that exist
ValidSql(q, cols) ==
    /\ q.on_col = "ID"
    /\ q.update_list # <<>>
    /\ "ID" \in {Upper(cols[i]) : i \in 1..Len(cols)}
    /\ \A i \in 1..Len(cols) : Upper(cols[i]) \in MainCols

\* ON T.ID = S.ID: NULL equals nothing
Matches(q, t, s) ==
    /\ t[q.on_col].t # "NULL"
    /\ s[q.on_col].t # "NULL"
    /\ t[q.on_col] = s[q.on_col]

Eval(src, s) ==
    LET v == s[Upper(src.col)] IN IF src.cast THEN CastString(v) ELSE v

Updated(q, t, s) ==
    [c \in MainCols |->
        LET at == {k \in 1..Len(q.update_list) : Upper(q.update_list[k].target) = c}
        IN  IF at = {} THEN t[c]
            ELSE Eval(q.update_list[CHOOSE k \in at : TRUE].src, s)]

Inserted(q, s) ==
    [c \in MainCols |->
        LET at == {k \in 1..Len(q.insert_cols) : Upper(q.insert_cols[k]) = c}
        IN  IF at = {} THEN NullVal
            ELSE Eval(q.insert_vals[CHOOSE k \in at : TRUE], s)]

MergeResult(q, T, S) ==
    LET upd == [i \in 1..Len(T) |->
                  IF \E j \in 1..Len(S) : Matches(q, T[i], S[j])
                  THEN Updated(q, T[i], S[CHOOSE j \in 1..Len(S) : Matches(q, T[i], S[j])])
                  ELSE T[i]]
        IsNew(s) == \A i \in 1..Len(T) : ~Matches(q, T[i], s)
        new == SelectSeq(S, IsNew)
    IN  upd \o [j \in 1..Len(new) |-> Inserted(q, new[j])]

-----------------------------------------------------------------------------
(* run_bigquery_merge *)

MergeInit ==
    /\ mpc = "schema"
    /\ df_columns \in ColumnLists
    /\ schema \in Schemas
    /\ schema_map = EmptyMap
    /\ sql = NoSql
    /\ main \in MainTables
    /\ \E ids \in StagingIds : staging = StagingTable(df_columns, ids)
    /\ calls = 1
    /\ schemaFailed = FALSE
    /\ queries = 0
    /\ logged = FALSE
    /\ runsOK = 0
    /\ mainBefore = <<>>
    /\ okSql = NoSql
    /\ prevSql = NoSql
    /\ queryFailed = FALSE

MergeIdle ==
    /\ mpc = "idle"
    /\ df_columns = <<>>
    /\ schema = <<>>
    /\ schema_map = EmptyMap
    /\ sql = NoSql
    /\ main = <<>>
    /\ staging = <<>>
    /\ calls = 0
    /\ schemaFailed = FALSE
    /\ queries = 0
    /\ logged = FALSE
    /\ runsOK = 0
    /\ mainBefore = <<>>
    /\ okSql = NoSql
    /\ prevSql = NoSql
    /\ queryFailed = FALSE

\* client.get_table succeeds; the statement is built
FetchSchemaOK ==
    /\ mpc = "schema"
    /\ schema_map' = SchemaMapOf(schema)
    /\ sql' = BuildSql(df_columns, schema_map')
    /\ mpc' = "query"
    /\ UNCHANGED <<df_columns, schema, main, staging, calls, schemaFailed, queries,
                   logged, runsOK, mainBefore, okSql, prevSql, queryFailed>>
    /\ UNCHANGED <<fetchVars, mapsVars, textVars>>

\* faulty variant: a failing get_table leaves the call
FetchSchemaFailRaises ==
    /\ mpc = "schema"
    /\ schemaFailed' = TRUE
    /\ mpc' = "raised"
    /\ UNCHANGED <<df_columns, schema, schema_map, sql, main, staging, calls, queries,
                   logged, runsOK, mainBefore, okSql, prevSql, queryFailed>>
    /\ UNCHANGED <<fetchVars, mapsVars, textVars>>

\* client.get_table raises: schema_map = {}; the statement is built all the same
FetchSchemaFail ==
    /\ mpc = "schema"
    /\ schemaFailed' = TRUE
    /\ schema_map' = EmptyMap
    /\ sql' = BuildSql(df_columns, schema_map')
    /\ mpc' = "query"
    /\ UNCHANGED <<df_columns, schema, main, staging, calls, queries,
                   logged, runsOK, mainBefore, okSql, prevSql, queryFailed>>
    /\ UNCHANGED <<fetchVars, mapsVars, textVars>>

\* client.query(sql); query_job.result() succeed: the warehouse applies the statement
QueryOK ==
    /\ mpc = "query"
    /\ ValidSql(sql, df_columns)
    /\ queries' = queries + 1
    /\ main' = MergeResult(sql, main, staging)
    /\ mainBefore' = main
    /\ okSql' = sql
    /\ prevSql' = okSql
    /\ runsOK' = runsOK + 1
    /\ mpc' = "done"
    /\ UNCHANGED <<df_columns, schema, schema_map, sql, staging, calls, schemaFailed,
                   logged, queryFailed>>
    /\ UNCHANGED <<fetchVars, mapsVars, textVars>>

\* faulty variant: the failed statement is submitted again before the error is raised
QueryFailRetries ==
    /\ mpc = "query"
    /\ queries' = queries + 2
    /\ queryFailed' = TRUE
    /\ logged' = TRUE
    /\ mpc' = "raised"
    /\ UNCHANGED <<df_columns, schema, schema_map, sql, main, staging, calls, schemaFailed,
                   runsOK, mainBefore, okSql, prevSql>>
    /\ UNCHANGED <<fetchVars, mapsVars, textVars>>

\* the statement fails (atomically): the excerpt is printed and the error re-raised
QueryFail ==
    /\ mpc = "query"
    /\ queries' = queries + 1
    /\ queryFailed' = TRUE
    /\ logged' = TRUE
    /\ mpc' = "raised"
    /\ UNCHANGED <<df_columns, schema, schema_map, sql, main, staging, calls, schemaFailed,
                   runsOK, mainBefore, okSql, prevSql>>
    /\ UNCHANGED <<fetchVars, mapsVars, textVars>>

\* the pipeline is run again against the same staging table
CallAgain ==
    /\ mpc \in {"done", "raised"}
    /\ calls < MaxCalls
    /\ calls' = calls + 1
    /\ mpc' = "schema"
    /\ schema_map' = EmptyMap
    /\ sql' = NoSql
    /\ schemaFailed' = FALSE
    /\ queries' = 0
    /\ logged' = FALSE
    /\ queryFailed' = FALSE
    /\ UNCHANGED <<df_columns, schema, main, staging, runsOK, mainBefore, okSql, prevSql>>
    /\ UNCHANGED <<fetchVars, mapsVars, textVars>>

MergeNext == FetchSchemaOK \/ FetchSchemaFail \/ QueryOK \/ QueryFail \/ CallAgain

-----------------------------------------------------------------------------
(* Text: a string is a sequence of characters; a character outside ASCII   *)
(* is written by its name                                                  *)

ArabicDigits == {"ARABIC-INDIC THREE", "ARABIC-INDIC SEVEN"}
ArabicLetters == {"ARABIC AIN", "ARABIC LAM"}
Accented == {"E ACUTE"}
Whitespace == {" ", "\t"}

\* text.replace(arabic, western) for each Arabic-Indic digit
WesternDigit(c) ==
    CASE c = "ARABIC-INDIC THREE" -> "3"
      [] c = "ARABIC-INDIC SEVEN" -> "7"
      [] OTHER -> c

\* unicodedata.normalize('NFKD', c).encode('ascii', 'ignore'): the base letter
\* of an accented one, nothing for any other non-ASCII character
AsciiFold(c) ==
    CASE c = "E ACUTE" -> <<"e">>
      [] c \in ArabicDigits \cup ArabicLetters -> <<>>
      [] OTHER -> <<c>>

RECURSIVE Concat(_)
Concat(parts) == IF parts = <<>> THEN <<>> ELSE Head(parts) \o Concat(Tail(parts))

RECURSIVE LStrip(_)
LStrip(text) ==
    IF text # <<>> /\ Head(text) \in Whitespace THEN LStrip(Tail(text)) ELSE text

RECURSIVE RStrip(_)
RStrip(text) ==
    IF text # <<>> /\ text[Len(text)] \in Whitespace
    THEN RStrip(SubSeq(text, 1, Len(text) - 1)) ELSE text

\* str.strip()
Strip(text) == RStrip(LStrip(text))

\* normalize_arabic on a string: digits westernised, U+0600..U+06FF removed,
\* NFKD + ASCII re-encoding, strip
NormalizeArabic(text) ==
    LET western == [i \in 1..Len(text) |-> WesternDigit(text[i])]
        NotArabic(c) == c \notin ArabicDigits \cup ArabicLetters
        latin == SelectSeq(western, NotArabic)
    IN  Strip(Concat([i \in 1..Len(latin) |-> AsciiFold(latin[i])]))

-----------------------------------------------------------------------------
(* The reference tables the CRM serves *)

User(id, first, last) == [ID |-> id, NAME |-> first, LAST_NAME |-> last]

UserAli == User("1", <<"A", "l", "i">>, <<"R", "E ACUTE">>)
UserAin == User("2", <<"ARABIC AIN", "ARABIC LAM">>, <<"ARABIC-INDIC THREE">>)

UserBatches == {<<>>, <<UserAli>>, <<UserAli, UserAin>>}

SipLine(reg, title) == [REG_ID |-> reg, TITLE |-> title]

SipBatches ==
    {<<>>,
     <<SipLine(11, "Line A"), SipLine(12, "Line B")>>,
     <<SipLine(11, "Line A2"), SipLine(0, "No registration")>>,
     <<SipLine(13, "")>>}

RefCursors == {50}

NoMap == [k \in {} |-> ""]

\* {'0': 'Outgoing', '1': 'Incoming'}
CallTypeMap == [k \in {"0", "1"} |-> IF k = "0" THEN "Outgoing" ELSE "Incoming"]

Put(map, key, value) ==
    [k \in DOMAIN map \cup {key} |-> IF k = key THEN value ELSE map[k]]

\* if reg_id and title: sip_map[f"reg{reg_id}"] = title
RECURSIVE AddSipLines(_, _)
AddSipLines(map, batch) ==
    IF batch = <<>> THEN map
    ELSE LET item == Head(batch) IN
         AddSipLines(IF item.REG_ID # 0 /\ item.TITLE # ""
                     THEN Put(map, "reg" \o ToString(item.REG_ID), item.TITLE)
                     ELSE map,
                     Tail(batch))

\* maps["portal_user"][str(ID)] = normalize_arabic(f"{first} {last}".strip())
RECURSIVE AddUsers(_, _)
AddUsers(map, users) ==
    IF users = <<>> THEN map
    ELSE LET u == Head(users) IN
         AddUsers(Put(map, u.ID, NormalizeArabic(Strip(u.NAME \o <<" ">> \o u.LAST_NAME))),
                  Tail(users))

-----------------------------------------------------------------------------
(* get_bitrix_maps, with fetch_all_bitrix_users and fetch_sip_lines_map    *)

InitialMaps == [portal_name |-> NoMap, portal_user |-> NoMap, call_type |-> NoMap]

MapsInit ==
    /\ gpc = "users"
    /\ u_start = 0
    /\ all_users = <<>>
    /\ s_start = 0
    /\ sip_map = NoMap
    /\ maps = InitialMaps
    /\ usersFailed = FALSE
    /\ sipFailed = FALSE
    /\ mapErrorLogged = FALSE
    /\ sipErrorLogged = FALSE
    /\ sipCalled = FALSE
    /\ userBatches = <<>>
    /\ sipBatches = <<>>

MapsIdle ==
    /\ gpc = "idle"
    /\ u_start = 0
    /\ all_users = <<>>
    /\ s_start = 0
    /\ sip_map = NoMap
    /\ maps = InitialMaps
    /\ usersFailed = FALSE
    /\ sipFailed = FALSE
    /\ mapErrorLogged = FALSE
    /\ sipErrorLogged = FALSE
    /\ sipCalled = FALSE
    /\ userBatches = <<>>
    /\ sipBatches = <<>>

\* fetch_all_bitrix_users returned: the loop over users fills portal_user,
\* then fetch_sip_lines_map is entered
UsersFetched(users) ==
    /\ maps' = [maps EXCEPT !.portal_user = AddUsers(maps.portal_user, users)]
    /\ gpc' = "sip"

\* a page of user.get arrives
UsersPageOK ==
    /\ gpc = "users"
    /\ \E batch \in UserBatches, hasNext \in BOOLEAN, next \in RefCursors :
         IF batch = <<>>
         THEN /\ UsersFetched(all_users)
              /\ UNCHANGED <<all_users, u_start, userBatches>>
         ELSE /\ all_users' = all_users \o batch
              /\ userBatches' = Append(userBatches, batch)
              /\ IF hasNext
                 THEN /\ Len(userBatches) < MaxRefPages
                      /\ u_start' = next
                      /\ UNCHANGED <<maps, gpc>>
                 ELSE /\ UsersFetched(all_users')
                      /\ UNCHANGED u_start
    /\ UNCHANGED <<s_start, sip_map, usersFailed, sipFailed, mapErrorLogged,
                   sipErrorLogged, sipCalled, sipBatches>>
    /\ UNCHANGED <<fetchVars, mergeVars, textVars>>

\* faulty variant: the users fetch is not guarded, its error leaves get_bitrix_maps
UsersPageErrorEscapes ==
    /\ gpc = "users"
    /\ usersFailed' = TRUE
    /\ gpc' = "raised"
    /\ UNCHANGED <<u_start, all_users, s_start, sip_map, maps, sipFailed,
                   mapErrorLogged, sipErrorLogged, sipCalled, userBatches, sipBatches>>
    /\ UNCHANGED <<fetchVars, mergeVars, textVars>>

\* a page request of user.get raises: the exception leaves fetch_all_bitrix_users,
\* is caught by get_bitrix_maps (print "Map Error"), and maps is returned as it is
UsersPageError ==
    /\ gpc = "users"
    /\ usersFailed' = TRUE
    /\ mapErrorLogged' = TRUE
    /\ gpc' = "done"
    /\ UNCHANGED <<u_start, all_users, s_start, sip_map, maps, sipFailed,
                   sipErrorLogged, sipCalled, userBatches, sipBatches>>
    /\ UNCHANGED <<fetchVars, mergeVars, textVars>>

\* fetch_sip_lines_map returned: portal_name and call_type are set, maps returned
SipFetched(map) ==
    /\ maps' = [maps EXCEPT !.portal_name = map, !.call_type = CallTypeMap]
    /\ gpc' = "done"

\* a page of voximplant.sip.get arrives
SipPageOK ==
    /\ gpc = "sip"
    /\ sipCalled' = TRUE
    /\ \E batch \in SipBatches, hasNext \in BOOLEAN, next \in RefCursors :
         IF batch = <<>>
         THEN /\ SipFetched(sip_map)
              /\ UNCHANGED <<sip_map, s_start, sipBatches>>
         ELSE /\ sip_map' = AddSipLines(sip_map, batch)
              /\ sipBatches' = Append(sipBatches, batch)
              /\ IF hasNext
                 THEN /\ Len(sipBatches) < MaxRefPages
                      /\ s_start' = next
                      /\ UNCHANGED <<maps, gpc>>
                 ELSE /\ SipFetched(sip_map')
                      /\ UNCHANGED s_start
    /\ UNCHANGED <<u_start, all_users, usersFailed, sipFailed, mapErrorLogged,
                   sipErrorLogged, userBatches>>
    /\ UNCHANGED <<fetchVars, mergeVars, textVars>>

\* a page request of voximplant.sip.get raises: caught in fetch_sip_lines_map
\* (print "Error fetching SIP lines"), break, the map built so far is returned
SipPageError ==
    /\ gpc = "sip"
    /\ sipCalled' = TRUE
    /\ sipFailed' = TRUE
    /\ sipErrorLogged' = TRUE
    /\ SipFetched(sip_map)
    /\ UNCHANGED <<u_start, all_users, s_start, sip_map, usersFailed, mapErrorLogged,
                   userBatches, sipBatches>>
    /\ UNCHANGED <<fetchVars, mergeVars, textVars>>

MapsNext == UsersPageOK \/ UsersPageError \/ SipPageOK \/ SipPageError

-----------------------------------------------------------------------------
(* Vocabulary of the merge claims *)

\* every source expression of the statement
SourcesOf(q) ==
    {q.update_list[k].src : k \in 1..Len(q.update_list)}
      \cup {q.insert_vals[k] : k \in 1..Len(q.insert_vals)}

\* the main table declares the column, whatever its case, as STRING
DeclaredString(col) ==
    \E i \in 1..Len(schema) :
        Upper(schema[i].name) = Upper(col) /\ schema[i].field_type = "STRING"

Built == mpc \in {"query", "done", "raised"}

(* C5: executing the same statement a second time against the same staging *)
(* table leaves the main table as the first execution left it (no row      *)
(* inserted, no value changed), and an execution leaves every main row     *)
(* whose ID is not in staging as it was.                                   *)
C5_Idempotent ==
    /\ (runsOK >= 2 /\ okSql = prevSql) => main = mainBefore
    /\ runsOK >= 1 =>
          /\ Len(main) >= Len(mainBefore)
          /\ \A i \in 1..Len(mainBefore) :
               (\A j \in 1..Len(staging) : staging[j]["ID"] # mainBefore[i]["ID"])
                  => main[i] = mainBefore[i]

\* twice the same statement, with a cast, on a table where it updated and inserted
C5_Witness ==
    /\ runsOK = 2
    /\ okSql = prevSql
    /\ \E src \in SourcesOf(okSql) : src.cast
    /\ Len(staging) = 2
    /\ Len(main) = 3
    /\ \E i \in 1..Len(main) : main[i]["ID"] = IntVal(2) /\ main[i]["PHONE"] = StrVal("old")
    /\ \E i \in 1..Len(main) : main[i]["ID"] = IntVal(1) /\ main[i]["PHONE"] = StrVal("501")

(* C6: the statement matches on ID; its UPDATE assigns every non-ID column *)
(* once and never ID; its INSERT lists every staging column, names and     *)
(* values in the same order; a source value is cast to STRING iff the      *)
(* fetched main-table schema declares the column, case-insensitively, as   *)
(* STRING (PHONE STRING is cast, CALL_DATE DATE is not).                   *)
C6_Statement ==
    Built =>
      /\ sql.on_col = "ID"
      /\ \A i \in 1..Len(df_columns) :
           df_columns[i] # "ID" =>
             Cardinality({k \in 1..Len(sql.update_list) :
                            sql.update_list[k].target = df_columns[i]}) = 1
      /\ \A k \in 1..Len(sql.update_list) :
           /\ sql.update_list[k].target # "ID"
           /\ \E i \in 1..Len(df_columns) : df_columns[i] = sql.update_list[k].target
           /\ sql.update_list[k].src.col = sql.update_list[k].target
      /\ sql.insert_cols = df_columns
      /\ Len(sql.insert_vals) = Len(sql.insert_cols)
      /\ \A i \in 1..Len(sql.insert_cols) : sql.insert_vals[i].col = sql.insert_cols[i]
      /\ ~schemaFailed =>
           /\ \A src \in SourcesOf(sql) : src.cast <=> DeclaredString(src.col)
           /\ \A src \in SourcesOf(sql) :
                (schema[2] = Field("Phone", "STRING") /\ schema[3] = Field("CALL_DATE", "DATE")) =>
                   /\ Upper(src.col) = "PHONE" => src.cast
                   /\ src.col = "CALL_DATE" => ~src.cast

\* lower-case phone against Phone STRING, with CALL_DATE DATE and ID not first
C6_Witness ==
    /\ Built
    /\ ~schemaFailed
    /\ df_columns = <<"CALL_DATE", "ID", "phone">>
    /\ schema[2] = Field("Phone", "STRING")
    /\ schema[3] = Field("CALL_DATE", "DATE")
    /\ sql.update_list = <<[target |-> "CALL_DATE", src |-> [col |-> "CALL_DATE", cast |-> FALSE]],
                           [target |-> "phone", src |-> [col |-> "phone", cast |-> TRUE]]>>

(* C7: a failing execution leaves the call as an error, after the excerpt  *)
(* of the statement was printed; the statement is submitted once per call, *)
(* never again after a failure; a successful execution returns normally.   *)
C7_State ==
    /\ queries <= 1
    /\ queryFailed => (mpc = "raised" /\ logged /\ queries = 1)
    /\ mpc = "raised" => queryFailed
    /\ mpc = "done" => (~queryFailed /\ ~logged /\ queries = 1)

C7_NoRetry == [](C7_State) /\ [][queryFailed => (queries' = 0 /\ calls' = calls + 1)]_vars

C7_Witness == queryFailed /\ mpc = "raised" /\ logged /\ queries = 1 /\ calls = 2 /\ runsOK = 1

(* C8: when fetching the schema fails the call goes on with an empty       *)
(* schema map, builds a statement without any cast, and submits it.        *)
C8_State ==
    schemaFailed =>
      /\ Built
      /\ schema_map = EmptyMap
      /\ \A src \in SourcesOf(sql) : ~src.cast
      /\ sql.insert_cols = df_columns
      /\ mpc \in {"done", "raised"} => queries = 1
      /\ mpc = "raised" => queryFailed

C8_Degrades ==
    [](C8_State) /\ [][(schemaFailed /\ mpc = "query") => queries' = 1]_vars

\* the schema fetch failed, PHONE is declared STRING, and the uncast statement ran
C8_Witness ==
    /\ schemaFailed
    /\ mpc = "done"
    /\ runsOK = 1
    /\ schema[2] = Field("Phone", "STRING")
    /\ \E k \in 1..Len(sql.update_list) : sql.update_list[k].target = "PHONE"

-----------------------------------------------------------------------------
(* Vocabulary of the reference-map claims *)

MapKeys == {"portal_name", "portal_user", "call_type"}

ValidSipLines(items) ==
    {i \in 1..Len(items) : items[i].REG_ID # 0 /\ items[i].TITLE # ""}

\* registration key -> title of the last line received under that key
SipMapOfItems(items) ==
    [k \in {"reg" \o ToString(items[i].REG_ID) : i \in ValidSipLines(items)} |->
        LET at == {i \in ValidSipLines(items) : "reg" \o ToString(items[i].REG_ID) = k}
        IN  items[CHOOSE i \in at : \A j \in at : j <= i].TITLE]

UserIdsReceived ==
    {Concat(userBatches)[i].ID : i \in 1..Len(Concat(userBatches))}

(* C9: no error of a page request leaves get_bitrix_maps: it is printed    *)
(* and the maps value returned has its three keys, each an empty or        *)
(* partial mapping; after an error on a SIP page the SIP map holds the     *)
(* entries of the pages received before it.                                *)
C9_BestEffort ==
    /\ gpc \in {"users", "sip", "done"}
    /\ DOMAIN maps = MapKeys
    /\ usersFailed => (gpc = "done" /\ mapErrorLogged)
    /\ sipFailed => (gpc = "done" /\ sipErrorLogged)
    /\ gpc = "done" =>
          /\ DOMAIN maps.portal_user \subseteq UserIdsReceived
          /\ maps.call_type \in {NoMap, CallTypeMap}
          /\ DOMAIN maps.portal_name \subseteq DOMAIN SipMapOfItems(Concat(sipBatches))
          /\ sipFailed => maps.portal_name = SipMapOfItems(Concat(sipBatches))

\* the second SIP page overrode reg11, the request for the third raised
C9_Witness ==
    /\ gpc = "done"
    /\ sipFailed
    /\ sipErrorLogged
    /\ Len(sipBatches) = 2
    /\ "reg12" \in DOMAIN maps.portal_name
    /\ maps.portal_name["reg11"] = "Line A2"

\* the users fetch failed on its second page
C9_WitnessUsers ==
    gpc = "done" /\ usersFailed /\ Len(userBatches) = 1 /\ maps.portal_user = NoMap

(* C10: after a failed users fetch the maps returned still hold the SIP    *)
(* map built by the SIP-lines fetch and the call-type map                  *)
(* {'0': 'Outgoing', '1': 'Incoming'}.                                     *)
C10_Independent ==
    (gpc = "done" /\ usersFailed) =>
        /\ sipCalled
        /\ maps.portal_name = SipMapOfItems(Concat(sipBatches))
        /\ maps.call_type = CallTypeMap

-----------------------------------------------------------------------------
(* C15: a run against a source with finitely many full pages ends with a    *)
(* return; the retry counter restarts at 0 with every new page, the         *)
(* requests of the run number at most 30 per page reached, a run whose      *)
(* every request fails returns after exactly 30 of them, and a run ends     *)
(* either on an exhausted budget or on the page by which the source         *)
(* signals the end (empty, short, or without cursor)                        *)

C15_Accounts ==
    /\ reqTotal <= 30 * turns
    /\ (pc = "done" /\ okBatches = <<>> /\ lastOutcome # "ok")
          => (exhausted /\ reqTotal = 30)
    /\ exhausted => (pc = "done" /\ attempt = 30 /\ lastOutcome \in {"429", "error"})
    /\ pc = "done"
          => \/ exhausted
             \/ /\ lastOutcome = "ok"
                /\ \/ data.result = <<>>
                   \/ Len(data.result) < 50
                   \/ ~data.hasNext

C15_NewPage ==
    /\ (turns' # turns) => (turns' = turns + 1 /\ attempt' = 0 /\ start' = data'.next)
    /\ (start' # start) => turns' = turns + 1
    /\ AnyRequest => reqTotal' = reqTotal + 1
    /\ (pc' = "done" /\ pc # "done" /\ ~exhausted') => lastOutcome' = "ok"

C15_Terminates ==
    /\ <>(pc = "done")
    /\ [](C15_Accounts)
    /\ [][C15_NewPage]_vars

\* a run that needed 30 requests for its first page and gave up on the second
C15_Witness ==
    /\ metered
    /\ pc = "done"
    /\ exhausted
    /\ turns = 2
    /\ reqTotal = 60
    /\ all_deals = BatchA

\* a run whose every request failed
C15_WitnessAllFail ==
    /\ metered
    /\ pc = "done"
    /\ exhausted
    /\ turns = 1
    /\ okBatches = <<>>
    /\ reqTotal = 30

\* a run that needed 30 requests on each of two pages and ended on a short page
C15_WitnessRetries ==
    /\ metered
    /\ pc = "done"
    /\ ~exhausted
    /\ turns = 2
    /\ reqTotal = 60
    /\ data.result = BatchD

-----------------------------------------------------------------------------
(* C16: all_deals is at every point the batches of the successful requests  *)
(* so far, one after the other in request order: a failed or rate-limited   *)
(* attempt adds nothing, a success adds its batch once at the end, and no   *)
(* step removes or reorders what is there                                   *)

C16_Concatenation == all_deals = Flatten(okBatches)

C16_Append ==
    /\ (Request429 \/ RequestError \/ GiveUp) => all_deals' = all_deals
    /\ RequestOK => /\ all_deals' = all_deals \o data'.result
                    /\ okBatches' = IF data'.result = <<>> THEN okBatches
                                     ELSE Append(okBatches, data'.result)
    /\ Len(all_deals') >= Len(all_deals)
    /\ SubSeq(all_deals', 1, Len(all_deals)) = all_deals

C16_CollectedInOrder == [](C16_Concatenation) /\ [][C16_Append]_vars

\* two pages collected, the second one after failed attempts, then returned
C16_Witness ==
    /\ pc = "done"
    /\ ~exhausted
    /\ attempt > 0
    /\ Len(okBatches) = 2
    /\ all_deals = okBatches[1] \o okBatches[2]
    /\ okBatches[2] # okBatches[1]
    /\ Len(df) < Len(all_deals)

-----------------------------------------------------------------------------
(* Python values met in a cell: None, NaN, False and strings *)

PyNone == [kind |-> "None", text |-> <<>>]
PyNaN == [kind |-> "nan", text |-> <<>>]
PyFalse == [kind |-> "False", text |-> <<>>]
PyStr(text) == [kind |-> "str", text |-> text]

\* the value of ret while the call has not returned
Unset == [kind |-> "unset", text |-> <<>>]

\* pd.isna(v)
IsNa(v) == v.kind \in {"None", "nan"}

\* str(v)
Str(v) ==
    CASE v.kind = "None" -> <<"N", "o", "n", "e">>
      [] v.kind = "nan" -> <<"n", "a", "n">>
      [] v.kind = "False" -> <<"F", "a", "l", "s", "e">>
      [] OTHER -> v.text

\* normalize_arabic(v) on any cell value
normalize_arabic(v) ==
    IF IsNa(v) THEN <<>>
    ELSE IF v = PyFalse THEN <<>>
    ELSE NormalizeArabic(Str(v))

-----------------------------------------------------------------------------
(* extract_last_10_digits *)

DigitChars == <<"0", "1", "2", "3", "4", "5", "6", "7", "8", "9">>

Digits == {DigitChars[i] : i \in 1..Len(DigitChars)}

\* \d of a str pattern: any Unicode decimal digit
IsDigit(c) == c \in Digits \cup ArabicDigits

Comma == <<",">>
SpacedDash == <<" ", "-", " ">>

PhoneDigits == 10
LongText == 20

\* the positions at which pat starts in text
Occurrences(text, pat) ==
    {i \in 1..(Len(text) - Len(pat) + 1) : SubSeq(text, i, i + Len(pat) - 1) = pat}

\* pat in text
Contains(text, pat) == Occurrences(text, pat) # {}

\* text.split(pat)[0]
SplitHead(text, pat) ==
    IF ~Contains(text, pat) THEN text
    ELSE LET first == CHOOSE i \in Occurrences(text, pat) :
                          \A j \in Occurrences(text, pat) : i <= j
         IN  SubSeq(text, 1, first - 1)

\* faulty variant: digits[:10]
FirstDigits(digits) == SubSeq(digits, 1, PhoneDigits)

\* digits[-10:]
LastDigits(digits) == SubSeq(digits, Len(digits) - PhoneDigits + 1, Len(digits))

extract_last_10_digits(v) ==
    IF IsNa(v) \/ v = PyStr(<<>>) THEN PyNone
    ELSE LET text == normalize_arabic(PyStr(Str(v)))
             part == IF Contains(text, Comma) THEN SplitHead(text, Comma)
                     ELSE IF Contains(text, SpacedDash) /\ Len(text) > LongText
                          THEN SplitHead(text, SpacedDash)
                          ELSE text
             digits == SelectSeq(part, IsDigit)
         IN  IF Len(digits) >= PhoneDigits THEN PyStr(LastDigits(digits)) ELSE PyNone

-----------------------------------------------------------------------------
(* The phone cells of the model *)

MaxRun == 12       \* length of the longest run of digits in a phone cell

\* n consecutive digits, starting with the digit lo
Run(lo, n) == [i \in 1..n |-> DigitChars[((lo + i - 1) % 10) + 1]]

\* the same digits as a keyboard with Arabic-Indic digits types them
Eastern(text) ==
    [i \in 1..Len(text) |->
        CASE text[i] = "3" -> "ARABIC-INDIC THREE"
          [] text[i] = "7" -> "ARABIC-INDIC SEVEN"
          [] OTHER -> text[i]]

RunLens == {0, 4, PhoneDigits - 1, PhoneDigits, MaxRun}

Pads == {<<>>, <<" ">>}

Leads ==
    {<<>>, <<"+">>, <<"T", "e", "l", " ">>,
     <<"ARABIC AIN", "ARABIC LAM", "ARABIC AIN", "ARABIC LAM", "ARABIC AIN",
       "ARABIC LAM", " ">>}

Seps == {<<>>, Comma, SpacedDash, <<"-">>}

PhoneTexts ==
    {l \o p \o Run(1, n1) \o s1 \o Run(5, n2) \o s2 \o Run(8, n3) \o r :
        l \in Pads, p \in Leads, n1 \in RunLens, s1 \in Seps,
        n2 \in {0, 4, PhoneDigits}, s2 \in {<<>>, Comma, SpacedDash},
        n3 \in {0, MaxRun}, r \in Pads}
    \cup {Eastern(Run(0, n)) : n \in RunLens}

PhoneCells == {PyNone, PyNaN, PyFalse} \cup {PyStr(t) : t \in PhoneTexts}

-----------------------------------------------------------------------------
(* process_source: the strings it names *)

WhatsappMarketing ==
    <<"W", "h", "a", "t", "s", "a", "p", "p", " ", "-", " ", "M", "a", "r", "k", "e",
      "t", "i", "n", "g">>

WhatsappMou == <<"W", "h", "a", "t", "s", "a", "p", "p", " ", "-", " ", "M", "o", "u">>

InstantForm == <<"I", "n", "s", "t", "a", "n", "t", " ", "f", "o", "r", "m">>

LeadGeneration ==
    <<"L", "e", "a", "d", " ", "g", "e", "n", "e", "r", "a", "t", "i", "o", "n">>

IgLeadGenerationLower ==
    <<"I", "G", " ", "l", "e", "a", "d", " ", "g", "e", "n", "e", "r", "a", "t", "i",
      "o", "n">>

InstagramDietHub ==
    <<"I", "n", "s", "t", "a", "g", "r", "a", "m", " ", "-", " ", "D", "i", "e", "t",
      " ", "H", "u", "b">>

FacebookDietHub ==
    <<"F", "a", "c", "e", "b", "o", "o", "k", " ", "-", " ", "D", "i", "e", "t", " ",
      "H", "u", "b">>

InstagramJidalur ==
    <<"I", "n", "s", "t", "a", "g", "r", "a", "m", " ", "-", " ", "J", "i", "d", "a",
      "l", "u", "r">>

FacebookJidalur ==
    <<"F", "a", "c", "e", "b", "o", "o", "k", " ", "-", " ", "J", "i", "d", "a", "l",
      "u", "r">>

FacebookBeltix ==
    <<"F", "a", "c", "e", "b", "o", "o", "k", " ", "-", " ", "B", "e", "l", "t", "i",
      "x">>

InstagramBeltix ==
    <<"I", "n", "s", "t", "a", "g", "r", "a", "m", " ", "-", " ", "B", "e", "l", "t",
      "i", "x">>

IgLeadGeneration ==
    <<"I", "G", " ", "L", "e", "a", "d", " ", "g", "e", "n", "e", "r", "a", "t", "i",
      "o", "n">>

CrmForm == <<"C", "R", "M", " ", "f", "o", "r", "m">>

Callback == <<"C", "a", "l", "l", "b", "a", "c", "k">>

IgToSiteIn == <<"I", "G", " ", "t", "o", " ", "s", "i", "t", "e">>

FbToWebsite == <<"F", "B", " ", "T", "o", " ", "W", "e", "b", "s", "i", "t", "e">>

WhatsApp == <<"W", "h", "a", "t", "s", "A", "p", "p">>

Others == <<"O", "t", "h", "e", "r", "s">>

Call == <<"C", "a", "l", "l">>

IgToSiteOut == <<"I", "g", " ", "t", "o", " ", "s", "i", "t", "e">>

Nan == <<"n", "a", "n">>

WhatsappWord == <<"w", "h", "a", "t", "s", "a", "p", "p">>

SalesWord == <<"s", "a", "l", "e", "s">>

UpperLetters == <<"A", "B", "C", "D", "E", "F", "G", "H", "I", "J", "K", "L", "M", "N", "O", "P", "Q", "R", "S", "T", "U", "V", "W", "X", "Y", "Z">>

LowerLetters == <<"a", "b", "c", "d", "e", "f", "g", "h", "i", "j", "k", "l", "m", "n", "o", "p", "q", "r", "s", "t", "u", "v", "w", "x", "y", "z">>

\* the lower-case form of a character, as (?i) compares it
Lower(c) ==
    IF \E i \in 1..Len(UpperLetters) : UpperLetters[i] = c
    THEN LowerLetters[CHOOSE i \in 1..Len(UpperLetters) : UpperLetters[i] = c]
    ELSE c

LowerText(text) == [i \in 1..Len(text) |-> Lower(text[i])]

\* valid_sources
valid_sources ==
    <<InstagramDietHub, FacebookDietHub, InstagramJidalur, FacebookJidalur,
      FacebookBeltix, InstagramBeltix, IgLeadGeneration, LeadGeneration>>

\* x in list
InList(x, list) == \E i \in 1..Len(list) : list[i] = x

\* row.get(key, default)
Get(row, key, default) == IF key \in DOMAIN row THEN row[key] ELSE default

\* faulty variant: the two exact names are tested after the generic pattern,
\* which has taken them already
IsNamedWhatsappShadowed(s) == FALSE

\* source_str in ['Whatsapp - Marketing', 'Whatsapp - Mou']
IsNamedWhatsapp(s) == InList(s, <<WhatsappMarketing, WhatsappMou>>)

\* re.match(r'(?i)^Whatsapp($|\s[^-]| -[^-])', s)
MatchesWhatsapp(s) ==
    /\ Len(s) >= 8
    /\ LowerText(SubSeq(s, 1, 8)) = WhatsappWord
    /\ \/ Len(s) = 8
       \/ Len(s) >= 10 /\ s[9] \in Whitespace /\ s[10] # "-"
       \/ Len(s) >= 11 /\ s[9] = " " /\ s[10] = "-" /\ s[11] # "-"

\* re.match(r'(?i)^Sales\s*Whatsapp', s)
MatchesSalesWhatsapp(s) ==
    /\ Len(s) >= 13
    /\ LowerText(SubSeq(s, 1, 5)) = SalesWord
    /\ \E k \in 0..(Len(s) - 13) :
          /\ \A i \in 6..(5 + k) : s[i] \in Whitespace
          /\ LowerText(SubSeq(s, 6 + k, 13 + k)) = WhatsappWord

\* faulty variant: the source string is passed on whenever it is not empty
FallbackKeepsNan(s) == IF s # <<>> THEN s ELSE Others

\* faulty variant: the source string is passed on whatever it is
FallbackKeepsEmpty(s) == IF s # Nan THEN s ELSE Others

\* source_str if source_str and source_str != 'nan' else 'Others'
Fallback(s) == IF s # <<>> /\ s # Nan THEN s ELSE Others

\* source_str and contact_str of a row
SourceStr(row) ==
    LET source_val == Get(row, "SOURCE_ID", Get(row, "source", PyStr(<<>>)))
    IN  IF ~IsNa(source_val) THEN normalize_arabic(source_val) ELSE <<>>

ContactStr(row) ==
    LET contact_val == Get(row, "CONTACT_SOURCE", PyStr(<<>>))
    IN  IF ~IsNa(contact_val) THEN normalize_arabic(contact_val) ELSE <<>>

\* the chain of tests of process_source, in the order of the source
Classify(source_str, contact_str) ==
    IF IsNamedWhatsapp(source_str) THEN source_str
    ELSE IF MatchesWhatsapp(source_str) THEN WhatsApp
    ELSE IF InList(source_str, <<InstantForm, LeadGeneration, IgLeadGenerationLower>>)
         THEN source_str
    ELSE IF InList(source_str, valid_sources) THEN source_str
    ELSE IF source_str = CrmForm THEN Others
    ELSE IF source_str = Callback THEN Call
    ELSE IF source_str = IgToSiteIn THEN IgToSiteOut
    ELSE IF source_str = FbToWebsite THEN FbToWebsite
    ELSE IF InList(contact_str, valid_sources) THEN contact_str
    ELSE IF MatchesSalesWhatsapp(source_str) THEN WhatsApp
    ELSE Fallback(source_str)

process_source(row) == Classify(SourceStr(row), ContactStr(row))

-----------------------------------------------------------------------------
(* The rows of the model *)

MaxGap == 2        \* most whitespace between "Sales" and "Whatsapp" in a source cell

\* a key the row does not have
Absent == [kind |-> "absent", text |-> <<>>]

RowOf(sid, src, con) ==
    LET cells == [k \in {"SOURCE_ID", "source", "CONTACT_SOURCE"} |->
                     CASE k = "SOURCE_ID" -> sid
                       [] k = "source" -> src
                       [] OTHER -> con]
        keys == {k \in DOMAIN cells : cells[k] # Absent}
    IN  [k \in keys |-> cells[k]]

RECURSIVE Spaces(_)
Spaces(n) == IF n = 0 THEN <<>> ELSE <<" ">> \o Spaces(n - 1)

ArabicWord == <<"ARABIC AIN", "ARABIC LAM">>

OtherSources ==
    {<<"W", "h", "a", "t", "s", "a", "p", "p">>,
     <<"w", "h", "a", "t", "s", "a", "p", "p">>,
     <<"W", "H", "A", "T", "S", "A", "P", "P">>,
     <<"W", "h", "a", "t", "s", "a", "p", "p", " ", "c", "h", "a", "t">>,
     <<"W", "h", "a", "t", "s", "a", "p", "p", "\t", "c", "h", "a", "t">>,
     <<"W", "h", "a", "t", "s", "a", "p", "p", " ", "-", " ", "S", "a", "l", "e", "s">>,
     <<"W", "h", "a", "t", "s", "a", "p", "p", " ", "-", "-", " ", "o", "l", "d">>,
     <<"W", "h", "a", "t", "s", "a", "p", "p", "-", "w", "e", "b">>,
     <<"W", "h", "a", "t", "s", "a", "p", "p", "x">>,
     <<"W", "h", "a", "t", "s", "a", "p", "p", " ", "-", " ", "m", "a", "r", "k", "e", "t", "i", "n", "g">>,
     <<"I", "G", " ", "L", "e", "a", "d", " ", "G", "e", "n", "e", "r", "a", "t", "i", "o", "n">>,
     <<"R", "e", "f", "e", "r", "r", "a", "l">>,
     <<"S", "a", "l", "e", "s">>,
     <<"N", "a", "N">>,
     <<" ", "C", "a", "l", "l", "b", "a", "c", "k", " ">>,
     <<"c", "a", "l", "l", "b", "a", "c", "k">>}

SourceTexts ==
    {WhatsappMarketing, WhatsappMou, InstantForm, LeadGeneration, IgLeadGenerationLower,
     CrmForm, Callback, IgToSiteIn, FbToWebsite, Nan, <<>>, ArabicWord,
     ArabicWord \o <<" ">> \o WhatsappMou, <<"\t">> \o Nan}
    \cup {valid_sources[i] : i \in 1..Len(valid_sources)}
    \cup OtherSources
    \cup {p \o Spaces(k) \o WhatsappWord \o t :
            p \in {SalesWord, <<"S", "a", "l", "e", "s">>}, k \in 0..MaxGap,
            t \in {<<>>, <<" ", "2">>}}
    \cup {<<"S", "a", "l", "e", "s", "\t", "W", "h", "a", "t", "s", "A", "p", "p">>}

SourceCells == {PyNone, PyNaN, PyFalse} \cup {PyStr(t) : t \in SourceTexts}

ContactCells ==
    {PyNone, PyFalse, PyStr(<<>>), PyStr(FacebookDietHub), PyStr(LeadGeneration),
     PyStr(<<" ">> \o InstagramBeltix), PyStr(IgLeadGenerationLower),
     PyStr(<<"R", "e", "f">>), PyStr(Nan), PyStr(WhatsappMou)}

SourceRows ==
    {RowOf(sid, src, con) :
        sid \in SourceCells \cup {Absent},
        src \in {Absent, PyStr(Callback), PyStr(SalesWord \o WhatsappWord)},
        con \in ContactCells \cup {Absent}}

-----------------------------------------------------------------------------
(* fix_date_format: cleaning the text *)

NoneWord == <<"N", "o", "n", "e">>
NaTWord == <<"N", "a", "T">>
FalseWord == <<"F", "a", "l", "s", "e">>

\* ['', 'nan', 'None', 'NaT', 'False']
Sentinels == <<<<>>, Nan, NoneWord, NaTWord, FalseWord>>

\* str(date_str).strip() in [...]
IsSentinel(text) == InList(Strip(text), Sentinels)

\* re.sub(r'[+-]\d{2}:?\d{2}$', '', s): the leftmost match that ends the text
StripOffset(s) ==
    LET n == Len(s)
        Sign(c) == c \in {"+", "-"}
        colon == /\ n >= 6
                 /\ Sign(s[n - 5]) /\ IsDigit(s[n - 4]) /\ IsDigit(s[n - 3])
                 /\ s[n - 2] = ":" /\ IsDigit(s[n - 1]) /\ IsDigit(s[n])
        plain == /\ n >= 5
                 /\ Sign(s[n - 4]) /\ IsDigit(s[n - 3]) /\ IsDigit(s[n - 2])
                 /\ IsDigit(s[n - 1]) /\ IsDigit(s[n])
    IN  IF colon THEN SubSeq(s, 1, n - 6)
        ELSE IF plain THEN SubSeq(s, 1, n - 5)
        ELSE s

\* re.sub(r'[TZ]', ' ', s)
BlankTZ(s) == [i \in 1..Len(s) |-> IF s[i] \in {"T", "Z"} THEN " " ELSE s[i]]

\* the length of the run of digits s starts with
RECURSIVE DigitRun(_)
DigitRun(s) == IF s # <<>> /\ IsDigit(Head(s)) THEN 1 + DigitRun(Tail(s)) ELSE 0

\* re.sub(r'\.\d+', '', s)
RECURSIVE DropFractions(_)
DropFractions(s) ==
    IF s = <<>> THEN <<>>
    ELSE IF Head(s) = "." /\ DigitRun(Tail(s)) > 0
         THEN DropFractions(SubSeq(s, 2 + DigitRun(Tail(s)), Len(s)))
         ELSE <<Head(s)>> \o DropFractions(Tail(s))

\* lines 79-87: the text the formats are tried on
CleanDateText(text) ==
    Strip(DropFractions(BlankTZ(StripOffset(Strip(normalize_arabic(PyStr(text)))))))

-----------------------------------------------------------------------------
(* datetime.strptime: a format is a sequence of directives and literal      *)
(* characters; a directive takes its alternatives in the order of the       *)
(* regular expression strptime builds                                       *)

Directives == {"%Y", "%m", "%d", "%H", "%M", "%S"}

formats_to_try ==
    << <<"%Y", "-", "%m", "-", "%d", " ", "%H", ":", "%M", ":", "%S">>,
       <<"%Y", "-", "%m", "-", "%d", " ", "%H", ":", "%M">>,
       <<"%Y", "-", "%m", "-", "%d">>,
       <<"%d", "/", "%m", "/", "%Y", " ", "%H", ":", "%M", ":", "%S">>,
       <<"%m", "/", "%d", "/", "%Y", " ", "%H", ":", "%M", ":", "%S">>,
       <<"%d", "-", "%m", "-", "%Y">>,
       <<"%d", "/", "%m", "/", "%Y">>,
       <<"%Y", "/", "%m", "/", "%d">>,
       <<"%Y", "%m", "%d">> >>

DigitValue(c) == (CHOOSE i \in 1..Len(DigitChars) : DigitChars[i] = c) - 1

\* int(piece), a leading blank of a space-padded day left out
RECURSIVE Num(_)
Num(piece) ==
    IF piece = <<>> THEN 0
    ELSE IF piece[Len(piece)] \in Digits
         THEN 10 * Num(SubSeq(piece, 1, Len(piece) - 1)) + DigitValue(piece[Len(piece)])
         ELSE Num(SubSeq(piece, 1, Len(piece) - 1))

AllDigits(piece) == \A i \in 1..Len(piece) : piece[i] \in Digits

\* piece is a text the directive or literal d matches
Accepts(d, piece) ==
    CASE d = "%Y" -> Len(piece) = 4 /\ AllDigits(piece)
      [] d = "%m" -> \/ Len(piece) = 2 /\ AllDigits(piece) /\ Num(piece) \in 1..12
                     \/ Len(piece) = 1 /\ AllDigits(piece) /\ Num(piece) \in 1..9
      [] d = "%d" -> \/ Len(piece) = 2 /\ AllDigits(piece) /\ Num(piece) \in 1..31
                     \/ Len(piece) = 1 /\ AllDigits(piece) /\ Num(piece) \in 1..9
                     \/ Len(piece) = 2 /\ piece[1] = " " /\ piece[2] \in Digits
                                       /\ Num(piece) \in 1..9
      [] d = "%H" -> \/ Len(piece) = 2 /\ AllDigits(piece) /\ Num(piece) \in 0..23
                     \/ Len(piece) = 1 /\ AllDigits(piece)
      [] d = "%M" -> \/ Len(piece) = 2 /\ AllDigits(piece) /\ Num(piece) \in 0..59
                     \/ Len(piece) = 1 /\ AllDigits(piece)
      [] d = "%S" -> \/ Len(piece) = 2 /\ AllDigits(piece) /\ Num(piece) \in 0..61
                     \/ Len(piece) = 1 /\ AllDigits(piece)
      [] d = " " -> Len(piece) >= 1 /\ \A i \in 1..Len(piece) : piece[i] \in Whitespace
      [] OTHER -> piece = <<d>>

\* the length of the run of whitespace s starts with
RECURSIVE BlankRun(_)
BlankRun(s) == IF s # <<>> /\ Head(s) \in Whitespace THEN 1 + BlankRun(Tail(s)) ELSE 0

\* n, n - 1, .., 1
RECURSIVE Down(_)
Down(n) == IF n <= 0 THEN <<>> ELSE <<n>> \o Down(n - 1)

\* the lengths d tries at the start of s, in the order of its alternatives
TryLens(d, s) ==
    CASE d = "%Y" -> <<4>>
      [] d \in Directives \ {"%Y"} -> <<2, 1>>
      [] d = " " -> Down(BlankRun(s))
      [] OTHER -> <<1>>

NoParse == [ok |-> FALSE, pieces |-> <<>>]

\* the pieces of the first way the format matches the whole of s
RECURSIVE Parse(_, _)
RECURSIVE ParseWith(_, _, _)
Parse(s, fmt) ==
    IF fmt = <<>>
    THEN IF s = <<>> THEN [ok |-> TRUE, pieces |-> <<>>] ELSE NoParse
    ELSE ParseWith(s, fmt, TryLens(Head(fmt), s))

ParseWith(s, fmt, lens) ==
    IF lens = <<>> THEN NoParse
    ELSE LET n == Head(lens)
             fits == n <= Len(s) /\ Accepts(Head(fmt), SubSeq(s, 1, n))
             rest == Parse(SubSeq(s, n + 1, Len(s)), Tail(fmt))
         IN  IF fits /\ rest.ok
             THEN [ok |-> TRUE, pieces |-> <<SubSeq(s, 1, n)>> \o rest.pieces]
             ELSE ParseWith(s, fmt, Tail(lens))

\* the value the match gives directive d
FieldOf(fmt, pieces, d, default) ==
    IF \E i \in 1..Len(fmt) : fmt[i] = d
    THEN Num(pieces[CHOOSE i \in 1..Len(fmt) : fmt[i] = d])
    ELSE default

IsLeap(y) == y % 4 = 0 /\ (y % 100 # 0 \/ y % 400 = 0)

DaysIn(y, m) ==
    CASE m = 2 -> IF IsLeap(y) THEN 29 ELSE 28
      [] m \in {4, 6, 9, 11} -> 30
      [] OTHER -> 31

NoDate == [ok |-> FALSE, year |-> 0, month |-> 0, day |-> 0]

\* datetime.strptime(s, fmt): a date, or NoDate for ValueError
Strptime(s, fmt) ==
    LET p == Parse(s, fmt)
        y == FieldOf(fmt, p.pieces, "%Y", 1900)
        m == FieldOf(fmt, p.pieces, "%m", 1)
        d == FieldOf(fmt, p.pieces, "%d", 1)
        sec == FieldOf(fmt, p.pieces, "%S", 0)
    IN  IF p.ok /\ y >= 1 /\ d <= DaysIn(y, m) /\ sec <= 59
        THEN [ok |-> TRUE, year |-> y, month |-> m, day |-> d]
        ELSE NoDate

RECURSIVE ToDigits(_)
ToDigits(n) ==
    IF n < 10 THEN <<DigitChars[n + 1]>>
    ELSE ToDigits(n \div 10) \o <<DigitChars[(n % 10) + 1]>>

Pad2(n) == IF n < 10 THEN <<"0">> \o ToDigits(n) ELSE ToDigits(n)

\* dt.strftime('%Y-%m-%d') (the year as glibc prints it, without padding)
Strftime(dt) ==
    ToDigits(dt.year) \o <<"-">> \o Pad2(dt.month) \o <<"-">> \o Pad2(dt.day)

\* the loop over formats_to_try: the first format that parses
RECURSIVE TryFormats(_, _)
TryFormats(s, fmts) ==
    IF fmts = <<>> THEN NoDate
    ELSE IF Strptime(s, Head(fmts)).ok THEN Strptime(s, Head(fmts))
    ELSE TryFormats(s, Tail(fmts))

-----------------------------------------------------------------------------
(* The lenient parse and the function *)

HasDigit(s) == \E i \in 1..Len(s) : IsDigit(s[i])

\* words without a digit that pandas reads as a time
DateWords == {<<"n", "o", "w">>, <<"t", "o", "d", "a", "y">>, <<"m", "a", "y">>}

\* pd.to_datetime may give a timestamp for s: texts with a digit and the date
\* words; for any other text it gives NaT under errors='coerce'
MayBeDate(s) == HasDigit(s) \/ LowerText(s) \in DateWords

\* the date the lenient parse read, whatever it is
ParsedDate == <<"Y", "Y", "Y", "Y", "-", "M", "M", "-", "D", "D">>

Returns(v) == [raised |-> FALSE, value |-> v]
Raises == [raised |-> TRUE, value |-> Unset]

\* faulty variant: a parse without errors='coerce' and outside the try
LenientUnguarded(s) ==
    IF MayBeDate(s) THEN {Returns(PyNone), Returns(PyStr(ParsedDate)), Raises}
    ELSE {Raises}

\* lines 108-115: pd.to_datetime(s, errors='coerce', dayfirst=True) in try/except
Lenient(s) ==
    IF MayBeDate(s) THEN {Returns(PyNone), Returns(PyStr(ParsedDate))}
    ELSE {Returns(PyNone)}

\* the outcomes of fix_date_format(v)
fix_date_format(v) ==
    IF IsNa(v) \/ IsSentinel(Str(v)) THEN {Returns(PyNone)}
    ELSE LET s == CleanDateText(Str(v))
             dt == TryFormats(s, formats_to_try)
         IN  IF dt.ok THEN {Returns(PyStr(Strftime(dt)))} ELSE Lenient(s)

-----------------------------------------------------------------------------
(* The date cells of the model *)

UpperChar(c) ==
    IF \E i \in 1..Len(LowerLetters) : LowerLetters[i] = c
    THEN UpperLetters[CHOOSE i \in 1..Len(LowerLetters) : LowerLetters[i] = c]
    ELSE c

UpperText(text) == [i \in 1..Len(text) |-> UpperChar(text[i])]

\* the first character in the other case
SwapFirst(text) ==
    IF text = <<>> THEN text
    ELSE <<IF Lower(Head(text)) = Head(text) THEN UpperChar(Head(text))
           ELSE Lower(Head(text))>> \o Tail(text)

\* a word in the cases a cell may carry it
Spellings(w) == {w, LowerText(w), UpperText(w), SwapFirst(w), SwapFirst(UpperText(w))}

MaxPad == 1        \* most whitespace characters on either side of a date cell

Padding == UNION {[1..n -> Whitespace] : n \in 0..MaxPad}

SentinelTexts ==
    {l \o w \o r : l \in Padding, r \in Padding,
                   w \in UNION {Spellings(Sentinels[i]) : i \in 1..Len(Sentinels)}}

DateTexts ==
    {<<"2", "0", "2", "4", "-", "0", "1", "-", "0", "5">>,
     <<"2", "0", "2", "4", "-", "0", "1", "-", "0", "5", " ", "1", "0", ":", "2", "0", ":", "3", "0">>,
     <<"2", "0", "2", "4", "-", "0", "1", "-", "0", "5", "T", "1", "0", ":", "2", "0", ":", "3", "0", "Z">>,
     <<"2", "0", "2", "4", "-", "0", "1", "-", "0", "5", "T", "1", "0", ":", "2", "0", ":", "3", "0", "+", "0", "3", ":", "0", "0">>,
     <<"2", "0", "2", "4", "-", "0", "1", "-", "0", "5", "T", "1", "0", ":", "2", "0", ":", "3", "0", ".", "1", "2", "3", "+", "0", "3", "0", "0">>,
     <<"2", "0", "2", "4", "-", "0", "1", "-", "0", "5", " ", "1", "0", ":", "2", "0">>,
     <<"0", "5", "/", "0", "1", "/", "2", "0", "2", "4">>,
     <<"1", "3", "/", "0", "1", "/", "2", "0", "2", "4", " ", "1", "0", ":", "2", "0", ":", "3", "0">>,
     <<"0", "1", "/", "1", "3", "/", "2", "0", "2", "4", " ", "1", "0", ":", "2", "0", ":", "3", "0">>,
     <<"0", "5", "-", "0", "1", "-", "2", "0", "2", "4">>,
     <<"2", "0", "2", "4", "/", "0", "1", "/", "0", "5">>,
     <<"2", "0", "2", "4", "0", "1", "0", "5">>,
     <<"2", "0", "2", "4", "1", "1", "1">>,
     <<"2", "0", "2", "4", "-", "0", "2", "-", "3", "0">>,
     <<"2", "0", "2", "4", "-", "0", "2", "-", "2", "9">>,
     <<"2", "0", "2", "3", "-", "0", "2", "-", "2", "9">>,
     <<"2", "0", "2", "4", "-", "1", "-", " ", "5">>,
     <<"2", "0", "2", "4", "-", "0", "ARABIC-INDIC SEVEN", "-", "0", "ARABIC-INDIC THREE">>,
     <<"2", "0", "2", "ARABIC-INDIC THREE", "-", "0", "ARABIC-INDIC SEVEN", "-", "0", "ARABIC-INDIC THREE", " ", "1", "0", ":", "2", "0", ":", "3", "0">>,
     <<"5", " ", "J", "a", "n", " ", "2", "0", "2", "4">>,
     <<"n", "o", "w">>,
     <<"M", "a", "y">>,
     <<"s", "o", "o", "n">>,
     <<"2", "0", "2", "4", "-", "0", "1", "-", "0", "5", " ", "1", "0", ":", "2", "0", ":", "6", "1">>,
     <<"0", "0", "0", "0", "-", "0", "1", "-", "0", "5">>}

DateCells ==
    {PyNone, PyNaN, PyFalse}
    \cup {PyStr(t) : t \in SentinelTexts}
    \cup {PyStr(l \o t \o r) : l \in Padding, r \in Padding, t \in DateTexts}

-----------------------------------------------------------------------------
(* The cell functions, each applied to one cell or row *)

TextIdle ==
    /\ tpc = "idle"
    /\ fn = "none"
    /\ arg = Unset
    /\ ret = Unset

TextInit ==
    /\ tpc = "called"
    /\ ret = Unset
    /\ \/ fn = "extract_last_10_digits" /\ arg \in PhoneCells
       \/ fn = "process_source" /\ arg \in SourceRows
       \/ fn = "fix_date_format" /\ arg \in DateCells

\* clean_phone = extract_last_10_digits(cell)
ExtractLast10Digits ==
    /\ tpc = "called"
    /\ fn = "extract_last_10_digits"
    /\ ret' = extract_last_10_digits(arg)
    /\ tpc' = "returned"
    /\ UNCHANGED <<fn, arg>>
    /\ UNCHANGED <<fetchVars, mergeVars, mapsVars>>

\* df.apply(process_source, axis=1), one row
ProcessSource ==
    /\ tpc = "called"
    /\ fn = "process_source"
    /\ ret' = PyStr(process_source(arg))
    /\ tpc' = "returned"
    /\ UNCHANGED <<fn, arg>>
    /\ UNCHANGED <<fetchVars, mergeVars, mapsVars>>

\* df[col].apply(fix_date_format), one cell
FixDateFormat ==
    /\ tpc = "called"
    /\ fn = "fix_date_format"
    /\ \E o \in fix_date_format(arg) :
          /\ tpc' = IF o.raised THEN "raised" ELSE "returned"
          /\ ret' = o.value
    /\ UNCHANGED <<fn, arg>>
    /\ UNCHANGED <<fetchVars, mergeVars, mapsVars>>

TextNext == ExtractLast10Digits \/ ProcessSource \/ FixDateFormat

-----------------------------------------------------------------------------
(* Vocabulary of the phone claims *)

\* the digits of a portion of text, Arabic-Indic ones in their western form
DigitsIn(portion) ==
    LET ds == SelectSeq(portion, IsDigit)
    IN  [i \in 1..Len(ds) |-> WesternDigit(ds[i])]

\* p is the portion of text before the first occurrence of sep
IsPortionBefore(p, text, sep) ==
    /\ Len(p) + Len(sep) <= Len(text)
    /\ SubSeq(text, 1, Len(p) + Len(sep)) = p \o sep
    /\ \A i \in 1..Len(p) : SubSeq(text, i, i + Len(sep) - 1) # sep

\* p is the portion of text the phone rule considers
IsConsidered(p, text) ==
    IF Contains(text, Comma) THEN IsPortionBefore(p, text, Comma)
    ELSE IF Contains(text, SpacedDash) /\ Len(text) > 20
         THEN IsPortionBefore(p, text, SpacedDash)
         ELSE p = text

Prefixes(text) == {SubSeq(text, 1, n) : n \in 0..Len(text)}

\* r is what the phone rule gives for text
IsPhoneOf(r, text) ==
    \E p \in Prefixes(text) :
        /\ IsConsidered(p, text)
        /\ LET ds == DigitsIn(p)
           IN  IF Len(ds) >= 10
               THEN /\ r.kind = "str"
                    /\ Len(r.text) = 10
                    /\ SubSeq(ds, Len(ds) - 9, Len(ds)) = r.text
               ELSE r = PyNone

PhoneReturned == tpc = "returned" /\ fn = "extract_last_10_digits"

(* C11 as stated: the phone rule (comma, then " - " with more than 20       *)
(* characters, else the whole text; last 10 digits or null) applied to the  *)
(* text of the cell as it was passed in                                     *)
C11_AsStated ==
    PhoneReturned =>
        /\ (IsNa(arg) \/ arg = PyStr(<<>>)) => ret = PyNone
        /\ (arg.kind = "str" /\ arg.text # <<>>) => IsPhoneOf(ret, arg.text)

(* C11, amended: extract_last_10_digits applies the phone rule to the      *)
(* normalized text (Arabic-Indic digits westernised, Arabic script and     *)
(* other non-ASCII removed, stripped): the portion before the first comma  *)
(* if it has one, else the portion before the first " - " if it has one    *)
(* and is longer than 20 characters, else all of it; the result is the     *)
(* last 10 digits of that portion, or null when it has fewer than 10;      *)
(* null and empty input give null                                          *)
C11_PhoneRule ==
    PhoneReturned =>
        /\ (IsNa(arg) \/ arg = PyStr(<<>>)) => ret = PyNone
        /\ (arg.kind = "str" /\ arg.text # <<>>) =>
               IsPhoneOf(ret, NormalizeArabic(arg.text))

\* a cell of more than 20 characters whose normalized text has at most 20 and
\* holds " - " between two runs of digits: the whole of it is considered
C11_Witness ==
    /\ PhoneReturned
    /\ arg.kind = "str"
    /\ Len(arg.text) > 20
    /\ ~Contains(arg.text, Comma)
    /\ Contains(NormalizeArabic(arg.text), SpacedDash)
    /\ Len(NormalizeArabic(arg.text)) <= 20
    /\ Len(DigitsIn(SplitHead(arg.text, SpacedDash))) < 10
    /\ ret.kind = "str"

\* a long cell cut at " - ", more than 10 digits before it
C11_WitnessDash ==
    /\ PhoneReturned
    /\ arg.kind = "str"
    /\ ~Contains(arg.text, Comma)
    /\ Len(NormalizeArabic(arg.text)) > 20
    /\ Len(DigitsIn(SplitHead(NormalizeArabic(arg.text), SpacedDash))) > 10
    /\ Len(DigitsIn(arg.text)) > Len(DigitsIn(SplitHead(arg.text, SpacedDash)))
    /\ ret = PyStr(LastDigits(DigitsIn(SplitHead(NormalizeArabic(arg.text), SpacedDash))))

\* a cell cut at its first comma although " - " comes before it
C11_WitnessComma ==
    /\ PhoneReturned
    /\ arg.kind = "str"
    /\ Contains(arg.text, Comma)
    /\ Contains(SplitHead(arg.text, Comma), SpacedDash)
    /\ Len(arg.text) > 20
    /\ Len(DigitsIn(SplitHead(arg.text, SpacedDash))) >= 10
    /\ ret.kind = "str"
    /\ ret.text # LastDigits(DigitsIn(SplitHead(arg.text, SpacedDash)))

-----------------------------------------------------------------------------
(* Vocabulary of the date claims *)

DateEnded == fn = "fix_date_format" /\ tpc \in {"returned", "raised"}

\* the string form of the cell is a sentinel, whatever its case and padding
IsSentinelAnyCase(v) ==
    \E i \in 1..Len(Sentinels) : LowerText(Strip(Str(v))) = LowerText(Sentinels[i])

(* C14: fix_date_format returns null and raises nothing for every input    *)
(* that is null or whose string form, ignoring case and surrounding        *)
(* whitespace, is "", "nan", "None", "NaT" or "False"                       *)
C14_SentinelsGiveNull ==
    (DateEnded /\ (IsNa(arg) \/ IsSentinelAnyCase(arg))) =>
        /\ tpc = "returned"
        /\ ret = PyNone

\* a sentinel in another case, which the comparison of line 76 lets through
C14_Witness ==
    /\ DateEnded
    /\ arg.kind = "str"
    /\ IsSentinelAnyCase(arg)
    /\ ~IsSentinel(Str(arg))
    /\ Strip(arg.text) # arg.text
    /\ tpc = "returned"
    /\ ret = PyNone

\* the CRM's empty cell, False
C14_WitnessFalse == DateEnded /\ arg = PyFalse /\ tpc = "returned" /\ ret = PyNone

-----------------------------------------------------------------------------
(* Vocabulary of the source claims: the rules as a numbered table *)

SourceReturned == tpc = "returned" /\ fn = "process_source"

\* rule k applies to source string s and contact string c
RuleMatches(k, s, c) ==
    CASE k = 1 -> s = WhatsappMarketing \/ s = WhatsappMou
      [] k = 2 -> MatchesWhatsapp(s)
      [] k = 3 -> s = InstantForm \/ s = LeadGeneration \/ s = IgLeadGenerationLower
      [] k = 4 -> InList(s, valid_sources)
      [] k = 5 -> s = CrmForm
      [] k = 6 -> s = Callback
      [] k = 7 -> s = IgToSiteIn
      [] k = 8 -> s = FbToWebsite
      [] k = 9 -> InList(c, valid_sources)
      [] k = 10 -> MatchesSalesWhatsapp(s)
      [] OTHER -> TRUE

\* the label rule k gives
RuleLabel(k, s, c) ==
    CASE k \in {1, 3, 4, 8} -> s
      [] k \in {2, 10} -> WhatsApp
      [] k = 5 -> Others
      [] k = 6 -> Call
      [] k = 7 -> IgToSiteOut
      [] k = 9 -> c
      [] OTHER -> IF s # <<>> /\ s # Nan THEN s ELSE Others

\* the rules that test the source string
SourceRules == (1..8) \cup {10}

\* the label of the first rule of the order that applies
FirstMatch(order, s, c) ==
    LET i == CHOOSE i \in 1..Len(order) :
                 /\ RuleMatches(order[i], s, c)
                 /\ \A j \in 1..(i - 1) : ~RuleMatches(order[j], s, c)
    IN  RuleLabel(order[i], s, c)

\* the order of the source: the contact rule (9) before the Sales rule (10)
SourceOrder == <<1, 2, 3, 4, 5, 6, 7, 8, 9, 10, 11>>

\* every rule on the source string before the contact rule
SourceRulesFirst == <<1, 2, 3, 4, 5, 6, 7, 8, 10, 9, 11>>

(* C12 as stated: the first matching rule gives the label, the two exact    *)
(* Whatsapp names are returned unchanged, and every rule on the source     *)
(* string is tried before the contact-source allow-list                    *)
C12_AsStated ==
    SourceReturned =>
        LET s == SourceStr(arg)
            c == ContactStr(arg)
        IN  /\ ret.text = FirstMatch(SourceRulesFirst, s, c)
            /\ (s = WhatsappMarketing \/ s = WhatsappMou) => ret.text = s

(* C12, amended: process_source returns the label of the first matching    *)
(* rule in the order of the source; 'Whatsapp - Marketing' and             *)
(* 'Whatsapp - Mou' are returned unchanged, not as 'WhatsApp'; every rule  *)
(* on the source string except the Sales-Whatsapp pattern is tried before  *)
(* the contact-source allow-list, and the Sales-Whatsapp pattern after it  *)
C12_RuleOrder ==
    SourceReturned =>
        LET s == SourceStr(arg)
            c == ContactStr(arg)
        IN  /\ ret.text = FirstMatch(SourceOrder, s, c)
            /\ (s = WhatsappMarketing \/ s = WhatsappMou) => ret.text = s
            /\ \A k \in 1..8 :
                   RuleMatches(k, s, c) => ret.text = FirstMatch(SourceOrder, s, <<>>)
            /\ (InList(c, valid_sources) /\ \A k \in 1..8 : ~RuleMatches(k, s, c))
                   => ret.text = c

\* an exact Whatsapp name, which the generic pattern matches too, kept as it
\* is although the contact-source is in the allow-list
C12_Witness ==
    /\ SourceReturned
    /\ SourceStr(arg) = WhatsappMarketing
    /\ MatchesWhatsapp(SourceStr(arg))
    /\ InList(ContactStr(arg), valid_sources)
    /\ ret.text = WhatsappMarketing

\* a Sales-Whatsapp source with a contact-source of the allow-list
C12_WitnessSales ==
    /\ SourceReturned
    /\ MatchesSalesWhatsapp(SourceStr(arg))
    /\ InList(ContactStr(arg), valid_sources)
    /\ ret.text = ContactStr(arg)

(* C13 as stated: a non-empty source string that no source-string rule     *)
(* recognizes gives the contact-source when it is in the allow-list and    *)
(* 'Others' otherwise                                                      *)
C13_AsStated ==
    SourceReturned =>
        LET s == SourceStr(arg)
            c == ContactStr(arg)
        IN  (s # <<>> /\ \A k \in SourceRules : ~RuleMatches(k, s, c)) =>
                ret.text = IF InList(c, valid_sources) THEN c ELSE Others

(* C13, amended: a non-empty source string that no source-string rule      *)
(* recognizes gives the contact-source when it is in the allow-list and    *)
(* otherwise the source string itself, 'Others' only when the source       *)
(* string is 'nan'                                                         *)
C13_Fallthrough ==
    SourceReturned =>
        LET s == SourceStr(arg)
            c == ContactStr(arg)
        IN  (s # <<>> /\ \A k \in SourceRules : ~RuleMatches(k, s, c)) =>
                ret.text = IF InList(c, valid_sources) THEN c
                           ELSE IF s = Nan THEN Others ELSE s

\* an unrecognized source with a contact-source outside the allow-list
C13_Witness ==
    /\ SourceReturned
    /\ SourceStr(arg) = <<"R", "e", "f", "e", "r", "r", "a", "l">>
    /\ ContactStr(arg) = <<"R", "e", "f">>
    /\ ret.text = SourceStr(arg)

\* the source string 'nan' with a contact-source outside the allow-list
C13_WitnessNan ==
    /\ SourceReturned
    /\ SourceStr(arg) = Nan
    /\ ~InList(ContactStr(arg), valid_sources)
    /\ ret.text = Others

\* an unrecognized source with a contact-source of the allow-list
C13_WitnessContact ==
    /\ SourceReturned
    /\ SourceStr(arg) = <<"R", "e", "f", "e", "r", "r", "a", "l">>
    /\ ContactStr(arg) = InstagramBeltix
    /\ ret.text = InstagramBeltix

(* C17: process_source never returns the empty string nor 'nan'; a row     *)
(* whose source is missing, empty or 'nan' and whose contact-source is not *)
(* in the allow-list gives 'Others'                                        *)
C17_NonEmptyLabel ==
    SourceReturned =>
        /\ ret.kind = "str"
        /\ ret.text # <<>>
        /\ ret.text # Nan
        /\ (SourceStr(arg) \in {<<>>, Nan} /\ ~InList(ContactStr(arg), valid_sources))
               => ret.text = Others

\* a row with no source key at all and an empty contact-source
C17_Witness ==
    /\ SourceReturned
    /\ "SOURCE_ID" \notin DOMAIN arg
    /\ "source" \notin DOMAIN arg
    /\ ContactStr(arg) = <<>>
    /\ ret.text = Others

\* a source cell of Arabic script only, which normalization empties
C17_WitnessArabic ==
    /\ SourceReturned
    /\ "SOURCE_ID" \in DOMAIN arg
    /\ arg["SOURCE_ID"] = PyStr(ArabicWord)
    /\ ~InList(ContactStr(arg), valid_sources)
    /\ ret.text = Others

-----------------------------------------------------------------------------
(* Specifications: one per component, the others at rest *)

InitFetch == FetchInit /\ MergeIdle /\ MapsIdle /\ TextIdle

SpecFetch == InitFetch /\ [][FetchNext]_vars

InitFetchMetered == FetchInitMetered /\ MergeIdle /\ MapsIdle /\ TextIdle

\* the loop is one thread that takes its next step as long as it has one: a
\* sleep ends, and a request ends with a response or a RequestException
SpecFetchFair == InitFetchMetered /\ [][FetchNext]_vars /\ WF_vars(FetchNext)

InitMerge == MergeInit /\ FetchIdle /\ MapsIdle /\ TextIdle

SpecMerge == InitMerge /\ [][MergeNext]_vars

InitMaps == MapsInit /\ FetchIdle /\ MergeIdle /\ TextIdle

SpecMaps == InitMaps /\ [][MapsNext]_vars

InitText == TextInit /\ FetchIdle /\ MergeIdle /\ MapsIdle

SpecText == InitText /\ [][TextNext]_vars

=============================================================================
